---------------------------- MODULE Spec2Model ----------------------------
(***************************************************************************)
(* SmartCompta: the create action of POST /api/generate, the invoice       *)
(* numbering transaction getNextFactureNumber and the monetary calculator  *)
(* calculerMontants.                                                       *)
(*                                                                         *)
(* Amounts are counted in thousandths of a euro ("mills", a tenth of a     *)
(* cent); the representation error of IEEE doubles enters where it decides *)
(* a rounding.  Strings are sequences of one-character strings.            *)
(***************************************************************************)
EXTENDS Integers, Sequences, FiniteSets

(***************************************************************************)
(* Bounds of the model.                                                    *)
(***************************************************************************)
\* create requests received over a run; all of them may overlap
MaxRequests == 2
\* calculerMontants is applied to every amount in -MaxMills..MaxMills
MaxMills == 60

\* transcription and extraction requests handled over a run
MaxCalls == 2
\* recordings completed in the client workflow over a run
MaxRecordings == 2

Requests == 1..MaxRequests
ApiCalls == 1..MaxCalls

\* years the wall clock shows: the run may cross one new year
Years == {2025, 2026}

(***************************************************************************)
(* JavaScript values of a JSON body: undefined, strings, numbers, NaN,     *)
(* booleans.  Every value is a record of the same shape.                   *)
(***************************************************************************)
JUndefined == [kind |-> "undefined", chars |-> <<>>, mills |-> 0]
JStr(s) == [kind |-> "string", chars |-> s, mills |-> 0]
JNum(m) == [kind |-> "number", chars |-> <<>>, mills |-> m]
JNaN == [kind |-> "NaN", chars |-> <<>>, mills |-> 0]
JFalse == [kind |-> "boolean", chars |-> <<>>, mills |-> 0]
JTrue == [kind |-> "boolean", chars |-> <<>>, mills |-> 1]

\* !v is false: JavaScript truthiness
Truthy(v) ==
    CASE v.kind = "undefined" -> FALSE
      [] v.kind = "NaN" -> FALSE
      [] v.kind = "string" -> Len(v.chars) > 0
      [] v.kind = "number" -> v.mills # 0
      [] v.kind = "boolean" -> v.mills = 1

Digits == <<"0", "1", "2", "3", "4", "5", "6", "7", "8", "9">>

IsDigit(c) == \E i \in 1..10 : Digits[i] = c

DigitVal(c) == (CHOOSE i \in 1..10 : Digits[i] = c) - 1

RECURSIVE DecimalValue(_)
DecimalValue(s) ==
    IF s = <<>> THEN 0
    ELSE 10 * DecimalValue(SubSeq(s, 1, Len(s) - 1)) + DigitVal(s[Len(s)])

\* Number(v) for the values a body carries (digit strings, other strings)
ToNumber(v) ==
    CASE v.kind = "number" -> v
      [] v.kind = "NaN" -> JNaN
      [] v.kind = "undefined" -> JNaN
      [] v.kind = "boolean" -> JNum(1000 * v.mills)
      [] v.kind = "string" ->
            IF \A i \in 1..Len(v.chars) : IsDigit(v.chars[i])
            THEN JNum(1000 * DecimalValue(v.chars))
            ELSE JNaN

RECURSIVE ToString(_)
\* n.toString() for an integer n >= 0
ToString(n) ==
    IF n < 10 THEN <<Digits[n + 1]>>
    ELSE ToString(n \div 10) \o <<Digits[(n % 10) + 1]>>

RECURSIVE PadStartTruncating(_, _, _)
\* a padding that also cuts the string down to its last width characters
PadStartTruncating(s, width, c) ==
    IF Len(s) > width THEN SubSeq(s, Len(s) - width + 1, Len(s))
    ELSE IF Len(s) = width THEN s
    ELSE PadStartTruncating(<<c>> \o s, width, c)

RECURSIVE PadStart(_, _, _)
\* s.padStart(width, c)
PadStart(s, width, c) ==
    IF Len(s) >= width THEN s ELSE PadStart(<<c>> \o s, width, c)

UpperChar(c) ==
    CASE c = "a" -> "A"
      [] c = "m" -> "M"
      [] c = "z" -> "Z"
      [] OTHER -> c

\* s.toUpperCase()
ToUpperCase(s) == [i \in 1..Len(s) |-> UpperChar(s[i])]

RECURSIVE Trim(_)
\* s.trim()
Trim(s) ==
    IF s = <<>> THEN s
    ELSE IF s[1] = " " THEN Trim(Tail(s))
    ELSE IF s[Len(s)] = " " THEN Trim(SubSeq(s, 1, Len(s) - 1))
    ELSE s


(***************************************************************************)
(* facture-utils.ts: calculerMontants.  The argument is a JavaScript       *)
(* number in mills; the three money fields come back as numbers in mills   *)
(* that are whole cents.  tauxTVA is a whole percentage.  A JavaScript     *)
(* number is an IEEE 754 double: an amount of mills that is no multiple of *)
(* 1/8 is held with a representation error, and so is its product by 100.  *)
(* The error is far smaller than a mill, so that it decides the result of  *)
(* Math.round only where the decimal value lies exactly on a half; there   *)
(* the double lies on either side of the half, and calculerMontants is the *)
(* set of the results these sides give.                                    *)
(***************************************************************************)
\* the amount of h mills is a multiple of 1/8: the double holds it exactly
ExactDouble(h) == h % 125 = 0

\* tauxTVA / 100 is a multiple of 1/4: the double holds it exactly
ExactRate(tauxTVA) == tauxTVA % 25 = 0

\* Math.round(x) for the double x that stands for num / den, den > 0: the
\* nearest integer, an exact half going up, an inexact one either way
MathRound(num, den, exact) ==
    LET up == (2 * num + den) \div (2 * den)
    IN IF (2 * num + den) % (2 * den) = 0 /\ ~exact
       THEN {up - 1, up}
       ELSE {up}

\* Math.round(montantHT * (tauxTVA / 100) * 100), in cents
MontantTVACents(h, tauxTVA) ==
    MathRound(h * tauxTVA, 1000, ExactDouble(h) /\ ExactRate(tauxTVA))

\* the total without the tax
MontantTTCCentsNoTax(h, tvaCents) == MathRound(h, 10, ExactDouble(h))

\* Math.round((montantHT + montantTVA) * 100), in cents; montantTVA in cents
MontantTTCCents(h, tvaCents) ==
    MathRound(h + 10 * tvaCents, 10, ExactDouble(h) /\ tvaCents % 25 = 0)

\* Math.round(montantHT * 100), in cents
MontantHTCents(h) == MathRound(h, 10, ExactDouble(h))

\* the results calculerMontants can return
calculerMontants(montantHT, tauxTVA) ==
    IF montantHT.kind # "number"
    THEN {[montantHT |-> JNaN, tauxTVA |-> tauxTVA,
           montantTVA |-> JNaN, montantTTC |-> JNaN]}
    ELSE LET h == montantHT.mills
         IN UNION {{[montantHT |-> JNum(10 * ht),
                     tauxTVA |-> tauxTVA,
                     montantTVA |-> JNum(10 * tva),
                     montantTTC |-> JNum(10 * ttc)] :
                        ht \in MontantHTCents(h),
                        ttc \in MontantTTCCents(h, tva)} :
                   tva \in MontantTVACents(h, tauxTVA)}

NoMontants ==
    [montantHT |-> JUndefined, tauxTVA |-> 0,
     montantTVA |-> JUndefined, montantTTC |-> JUndefined]

(***************************************************************************)
(* The data store: the Client table (filled by the import, read only       *)
(* here), the single Sequence row FACTURE_SEQ and the Facture table.       *)
(***************************************************************************)
NullClient == [id |-> "null", numDossier |-> <<>>, raisonSociale |-> "null"]

Clients ==
    {[id |-> "c1", numDossier |-> <<"A", "M", "1">>, raisonSociale |-> "ACME"]}

\* prisma.client.findUnique({ where: { numDossier } })
FindClient(numDossier) ==
    IF \E c \in Clients : c.numDossier = numDossier
    THEN CHOOSE c \in Clients : c.numDossier = numDossier
    ELSE NullClient

\* the Sequence row: absent, or { dernierNumero, annee }
NoRow == [present |-> FALSE, dernierNumero |-> 0, annee |-> 0]
Row(n, a) == [present |-> TRUE, dernierNumero |-> n, annee |-> a]

\* prisma.$transaction(fn) is called without an isolationLevel option, so the
\* transaction runs at the level the database is configured with: a level
\* where a write over a row another transaction committed since this one
\* read it goes through (READ COMMITTED), or one where it aborts the
\* transaction (SERIALIZABLE, snapshot).
IsolationLevels == {"ReadCommitted", "Serializable"}

VARIABLES
    clock,        \* the year new Date().getFullYear() returns
    isolation,    \* the isolation level of the database
    stripeKey,    \* process.env.STRIPE_SECRET_KEY is set
    seq,          \* the committed FACTURE_SEQ row
    seqVersion,   \* number of committed writes of the row
    lockHolder,   \* the request whose transaction holds the row's write lock, or 0
    factures,     \* the Facture table
    req,          \* per create request: its position and its local variables
    issued,       \* the numbers returned by getNextFactureNumber, in order
    overlapped,   \* some getNextFactureNumber call began while another was running
    load,         \* the run: the number of requests, the bodies they carry,
                  \* and the FACTURE_SEQ row the store starts with
    calcArgs,     \* arguments of a calculerMontants call
    calcResult,   \* and its result
    apiKey,       \* process.env.OPENROUTER_API_KEY is set
    api,          \* per transcription or extraction request: its position
                  \* and its local variables
    dash,         \* the state of the Dashboard component
    form          \* the state of the FactureForm component

vars ==
    <<clock, isolation, stripeKey, seq, seqVersion, lockHolder, factures, req,
      issued, overlapped, load, calcArgs, calcResult, apiKey, api, dash, form>>

dbVars == <<seq, seqVersion, lockHolder>>
envVars == <<isolation, stripeKey, load>>
calcVars == <<calcArgs, calcResult>>
apiVars == <<apiKey, api>>
uiVars == <<dash, form>>

(***************************************************************************)
(* route.ts, POST, "Cas 3: Création de la facture".  One request is one    *)
(* run of the handler; its steps are the stretches between two awaits.     *)
(***************************************************************************)
NoBody ==
    [numDossier |-> JUndefined, montantHT |-> JUndefined,
     prestation |-> JUndefined, genererStripe |-> JUndefined]

\* a complete body, which omits genererStripe
ValidBody ==
    [numDossier |-> JStr(<<" ", "a", "m", "1", " ">>), montantHT |-> JNum(12340),
     prestation |-> JStr(<<"A">>), genererStripe |-> JUndefined]

NumDossierInputs ==
    {JUndefined, JStr(<<>>), JStr(<<" ", "a", "m", "1", " ">>),
     JStr(<<"Z", "Z", "9">>), JNum(28000)}

MontantInputs ==
    {JUndefined, JNum(0), JNum(12340), JStr(<<"a", "b", "c">>), JStr(<<"0">>),
     JStr(<<"5", "0">>)}

PrestationInputs == {JUndefined, JStr(<<>>), JStr(<<"A">>)}

GenererStripeInputs == {JUndefined, JFalse, JTrue}

\* the bodies of create requests
Bodies ==
    [numDossier : NumDossierInputs, montantHT : MontantInputs,
     prestation : PrestationInputs, genererStripe : GenererStripeInputs]

\* the amounts calculerMontants is applied to
CalcAmounts ==
    (-MaxMills .. MaxMills) \cup {125, 145, 1005, 1255, 33330, 100000}

\* complete bodies over every amount, given as a number
AmountBodies == {[ValidBody EXCEPT !.montantHT = JNum(h)] : h \in CalcAmounts}

AllBodies == Bodies \cup AmountBodies

InitReq ==
    [pc |-> "idle", body |-> NoBody, client |-> NullClient,
     montants |-> NoMontants, anneeEnCours |-> 0, sequence |-> NoRow,
     txRow |-> NoRow, wrote |-> FALSE, didReset |-> FALSE, snapVersion |-> 0,
     nouveauNumero |-> 0, numeroSequentiel |-> 0, prefixe |-> <<>>,
     numeroComplet |-> <<>>, stripePaymentLink |-> "null",
     stripePaymentId |-> "null", status |-> 0, calledGetNext |-> FALSE,
     calledStripe |-> FALSE, stripeFailed |-> FALSE, txAborted |-> FALSE,
     persistThrew |-> FALSE]

\* positions inside prisma.$transaction
TxPcs == {"tx_find", "tx_create", "tx_reset", "tx_incr", "tx_commit"}

\* NextResponse.json(..., { status }): the handler returns and its local
\* variables are gone; what the run did stays on record
Respond(r, status, fields) ==
    req' = [req EXCEPT ![r] =
        [InitReq EXCEPT !.pc = "done",
                        !.status = status,
                        !.wrote = fields.wrote,
                        !.calledGetNext = fields.calledGetNext,
                        !.calledStripe = fields.calledStripe,
                        !.stripeFailed = fields.stripeFailed,
                        !.txAborted = fields.txAborted,
                        !.persistThrew = fields.persistThrew]]

\* the bodies the run's requests carry
LoadBodies == IF load.bodies = "valid" THEN {ValidBody} ELSE AllBodies

\* await request.json() resolves with the body of the next request
RequestJson(r) ==
    /\ req[r].pc = "idle"
    /\ r <= load.requests
    /\ \A q \in Requests : q < r => req[q].pc # "idle"
    /\ \E body \in LoadBodies :
          req' = [req EXCEPT ![r] =
              [req[r] EXCEPT !.pc = "received", !.body = body]]
    /\ UNCHANGED <<clock, envVars, dbVars, factures, issued, overlapped, calcVars, apiVars, uiVars>>

\* const { ..., genererStripe = true } = body
GenererStripe(body) ==
    IF body.genererStripe.kind = "undefined" THEN JTrue ELSE body.genererStripe

\* the validation without its test of montantHT
DonneesIncompletesNoMontant(body) ==
    \/ ~Truthy(body.numDossier)
    \/ ~Truthy(body.prestation)

\* if (!numDossier || !montantHT || !prestation)
DonneesIncompletes(body) ==
    \/ ~Truthy(body.numDossier)
    \/ ~Truthy(body.montantHT)
    \/ ~Truthy(body.prestation)

\* the test of the client left out
ClientMissingNoCheck(client) == FALSE

\* if (!client)
ClientMissing(client) == client = NullClient

\* `FA-${anneeEnCours}-`
Prefixe(annee) == <<"F", "A", "-">> \o ToString(annee) \o <<"-">>

\* `${prefixe}${result.toString().padStart(4, '0')}`
NumeroComplet(annee, numero) ==
    Prefixe(annee) \o PadStart(ToString(numero), 4, "0")

\* the numDossier trimmed, in the case it came in
NormalizedNumDossierTrimOnly(body) == Trim(body.numDossier.chars)

\* numDossier.toUpperCase().trim()
NormalizedNumDossier(body) == Trim(ToUpperCase(body.numDossier.chars))

\* the create action from the validation to the start of the transaction of
\* getNextFactureNumber: the validation answers 400, toUpperCase throws on a
\* numDossier that is no string (the catch answers 500), an unknown client
\* answers 404; otherwise calculerMontants, anneeEnCours and prefixe
CreateAction(r) ==
    /\ req[r].pc = "received"
    /\ LET body == req[r].body
           client == FindClient(NormalizedNumDossier(body))
       IN IF DonneesIncompletes(body)
          THEN Respond(r, 400, req[r]) /\ UNCHANGED overlapped
          ELSE IF body.numDossier.kind # "string"
          THEN Respond(r, 500, req[r]) /\ UNCHANGED overlapped
          ELSE IF ClientMissing(client)
          THEN Respond(r, 404, req[r]) /\ UNCHANGED overlapped
          ELSE /\ \E montants \in calculerMontants(ToNumber(body.montantHT), 20) :
                     req' = [req EXCEPT ![r] =
                         [req[r] EXCEPT
                             !.pc = "tx_find",
                             !.client = client,
                             !.montants = montants,
                             !.anneeEnCours = clock,
                             !.prefixe = Prefixe(clock),
                             !.calledGetNext = TRUE]]
               /\ overlapped' =
                     (overlapped \/ \E q \in Requests \ {r} : req[q].pc \in TxPcs)
    /\ UNCHANGED <<clock, envVars, dbVars, factures, issued, calcVars, apiVars, uiVars>>

(***************************************************************************)
(* facture-utils.ts: getNextFactureNumber, the statements of the           *)
(* transaction.  A transaction's writes stay in txRow until it commits;    *)
(* a write takes the row's lock, which the commit or the rollback frees.   *)
(***************************************************************************)
\* the row as the transaction's statements see it
VisibleRow(r) == IF req[r].wrote THEN req[r].txRow ELSE seq

\* a write finds the row changed by a transaction that committed meanwhile
WriteConflict(r) ==
    /\ isolation = "Serializable"
    /\ seqVersion # req[r].snapVersion

\* if (sequence.annee !== anneeEnCours)
AfterSequence(sequence, anneeEnCours) ==
    IF sequence.annee # anneeEnCours THEN "tx_reset" ELSE "tx_incr"

\* the transaction's writes stay in the store
RolledBackRowDirty(r) == VisibleRow(r)

\* the committed row once a transaction is rolled back
RolledBackRow(r) == seq

\* the transaction throws: its writes are rolled back, the rejection reaches
\* the handler's catch, which answers 500
Rollback(r) ==
    /\ Respond(r, 500, [req[r] EXCEPT !.txAborted = TRUE])
    /\ seq' = RolledBackRow(r)
    /\ lockHolder' = IF lockHolder = r THEN 0 ELSE lockHolder
    /\ UNCHANGED seqVersion

\* tx.sequence.findUnique({ where: { id: 'FACTURE_SEQ' } })
TxFindUnique(r) ==
    /\ req[r].pc = "tx_find"
    /\ req' = [req EXCEPT ![r] =
          [req[r] EXCEPT !.sequence = seq,
                    !.snapVersion = seqVersion,
                    !.pc = IF ~seq.present THEN "tx_create"
                           ELSE AfterSequence(seq, req[r].anneeEnCours)]]
    /\ UNCHANGED <<clock, envVars, dbVars, factures, issued, overlapped, calcVars, apiVars, uiVars>>

\* tx.sequence.create(...): fails on the primary key when the row exists
TxCreate(r) ==
    /\ req[r].pc = "tx_create"
    /\ lockHolder = 0
    /\ IF seq.present
       THEN Rollback(r)
       ELSE /\ req' = [req EXCEPT ![r] =
                  [req[r] EXCEPT !.sequence = Row(0, req[r].anneeEnCours),
                            !.txRow = Row(0, req[r].anneeEnCours),
                            !.wrote = TRUE,
                            !.pc = AfterSequence(Row(0, req[r].anneeEnCours),
                                                 req[r].anneeEnCours)]]
            /\ lockHolder' = r
            /\ UNCHANGED <<seq, seqVersion>>
    /\ UNCHANGED <<clock, envVars, factures, issued, overlapped, calcVars, apiVars, uiVars>>

\* data: { annee: anneeEnCours }, the number kept
ResetRowKeepNumber(sequence, anneeEnCours) ==
    Row(sequence.dernierNumero, anneeEnCours)

\* data: { dernierNumero: 0, annee: anneeEnCours }
ResetRow(sequence, anneeEnCours) == Row(0, anneeEnCours)

\* tx.sequence.update({ data: { dernierNumero: 0, annee: anneeEnCours } })
TxResetYear(r) ==
    /\ req[r].pc = "tx_reset"
    /\ lockHolder \in {0, r}
    /\ IF WriteConflict(r)
       THEN Rollback(r)
       ELSE /\ req' = [req EXCEPT ![r] =
                  [req[r] EXCEPT
                      !.sequence = ResetRow(VisibleRow(r), req[r].anneeEnCours),
                      !.txRow = ResetRow(VisibleRow(r), req[r].anneeEnCours),
                      !.wrote = TRUE,
                      !.didReset = TRUE,
                      !.pc = "tx_incr"]]
            /\ lockHolder' = r
            /\ UNCHANGED <<seq, seqVersion>>
    /\ UNCHANGED <<clock, envVars, factures, issued, overlapped, calcVars, apiVars, uiVars>>

\* the increment left out
NouveauNumeroSame(sequence) == sequence.dernierNumero

\* const nouveauNumero = sequence.dernierNumero + 1
NouveauNumero(sequence) == sequence.dernierNumero + 1

\* tx.sequence.update({ data: { dernierNumero: nouveauNumero } })
TxIncrement(r) ==
    /\ req[r].pc = "tx_incr"
    /\ lockHolder \in {0, r}
    /\ IF WriteConflict(r)
       THEN Rollback(r)
       ELSE /\ req' = [req EXCEPT ![r] =
                  [req[r] EXCEPT !.nouveauNumero = NouveauNumero(req[r].sequence),
                            !.txRow = [VisibleRow(r) EXCEPT
                                !.dernierNumero = NouveauNumero(req[r].sequence)],
                            !.wrote = TRUE,
                            !.pc = "tx_commit"]]
            /\ lockHolder' = r
            /\ UNCHANGED <<seq, seqVersion>>
    /\ UNCHANGED <<clock, envVars, factures, issued, overlapped, calcVars, apiVars, uiVars>>

\* if (genererStripe && process.env.STRIPE_SECRET_KEY)
WantsStripe(body) == Truthy(GenererStripe(body)) /\ stripeKey

\* the transaction commits and getNextFactureNumber returns
TxCommit(r) ==
    /\ req[r].pc = "tx_commit"
    /\ seq' = req[r].txRow
    /\ seqVersion' = seqVersion + 1
    /\ lockHolder' = 0
    /\ req' = [req EXCEPT ![r] =
          [req[r] EXCEPT !.numeroSequentiel = req[r].nouveauNumero,
                    !.numeroComplet =
                        NumeroComplet(req[r].anneeEnCours, req[r].nouveauNumero),
                    !.pc = IF WantsStripe(req[r].body) THEN "stripe" ELSE "persist"]]
    /\ issued' = Append(issued,
          [numero |-> req[r].nouveauNumero, annee |-> req[r].anneeEnCours])
    /\ UNCHANGED <<clock, envVars, factures, overlapped, calcVars, apiVars, uiVars>>

\* the store fails a statement of the transaction, or its commit
TxAbort(r) ==
    /\ req[r].pc \in TxPcs
    /\ Rollback(r)
    /\ UNCHANGED <<clock, envVars, factures, issued, overlapped, calcVars, apiVars, uiVars>>

(***************************************************************************)
(* route.ts, POST: the payment link and the persistence of the invoice.    *)
(***************************************************************************)
\* what creerLienPaiement resolves to: a link and its identifier, or a
\* failure indication
StripeResults ==
    {[success |-> TRUE, url |-> "https://pay", paymentLinkId |-> "plink"],
     [success |-> FALSE, url |-> "undefined", paymentLinkId |-> "undefined"]}

\* v || null
OrNull(v) == IF v = "undefined" \/ v = "" THEN "null" ELSE v

\* stripePaymentLink = stripeResult.url, whatever the result
StripePaymentLinkUnchecked(result) == result.url

\* if (stripeResult.success) stripePaymentLink = stripeResult.url || null
StripePaymentLink(result) ==
    IF result.success THEN OrNull(result.url) ELSE "null"

\* if (stripeResult.success) stripePaymentId = stripeResult.paymentLinkId || null
StripePaymentId(result) ==
    IF result.success THEN OrNull(result.paymentLinkId) ELSE "null"

\* creerLienPaiement returns
StripeReturn(r, result) ==
    /\ req[r].pc = "stripe"
    /\ req' = [req EXCEPT ![r] =
          [req[r] EXCEPT !.stripePaymentLink = StripePaymentLink(result),
                         !.stripePaymentId = StripePaymentId(result),
                         !.calledStripe = TRUE,
                         !.stripeFailed = ~result.success,
                         !.pc = "persist"]]
    /\ UNCHANGED <<clock, envVars, dbVars, factures, issued, overlapped, calcVars, apiVars, uiVars>>

\* the data of prisma.facture.create; the row's id is generated per request
FactureData(r) ==
    [id |-> r,
     numeroSequentiel |-> req[r].numeroSequentiel,
     prefixe |-> req[r].prefixe,
     numeroComplet |-> req[r].numeroComplet,
     prestation |-> req[r].body.prestation,
     montantHT |-> req[r].montants.montantHT,
     tauxTVA |-> req[r].montants.tauxTVA,
     montantTVA |-> req[r].montants.montantTVA,
     montantTTC |-> req[r].montants.montantTTC,
     stripePaymentLink |-> req[r].stripePaymentLink,
     stripePaymentId |-> req[r].stripePaymentId,
     clientId |-> req[r].client.id]

\* a NaN has no representation in the query sent to the store
Storable(data) ==
    /\ data.montantHT.kind = "number"
    /\ data.montantTVA.kind = "number"
    /\ data.montantTTC.kind = "number"

\* prisma.facture.create resolves; the handler answers success
FactureCreate(r) ==
    /\ req[r].pc = "persist"
    /\ Storable(FactureData(r))
    /\ factures' = factures \cup {FactureData(r)}
    /\ Respond(r, 200, req[r])
    /\ UNCHANGED <<clock, envVars, dbVars, issued, overlapped, calcVars, apiVars, uiVars>>

\* prisma.facture.create rejects; the handler's catch answers 500
FactureCreateFails(r) ==
    /\ req[r].pc = "persist"
    /\ Respond(r, 500, [req[r] EXCEPT !.persistThrew = TRUE])
    /\ UNCHANGED <<clock, envVars, dbVars, factures, issued, overlapped, calcVars, apiVars, uiVars>>

(***************************************************************************)
(* openrouter.ts: extraireInfosFacture.  The reply of the language model   *)
(* is a sequence of tokens: free text, an opening brace, a closing brace,  *)
(* or the members of a JSON object.                                        *)
(***************************************************************************)
Token(t, n, m, p) ==
    [t |-> t, numDossier |-> n, montantHT |-> m, prestation |-> p]

TextToken == Token("text", JUndefined, JUndefined, JUndefined)
LBrace == Token("{", JUndefined, JUndefined, JUndefined)
RBrace == Token("}", JUndefined, JUndefined, JUndefined)

\* the members "numDossier": n, "montantHT": m, "prestation": p
Members(n, m, p) == Token("members", n, m, p)

\* member lists a reply carries
MemberInputs ==
    {Members(JStr(<<" ", "a", "m", "1", " ">>), JNum(100000), JStr(<<" ", "A">>)),
     Members(JStr(<<"Z", "Z", "9">>), JStr(<<"5", "0">>), JStr(<<"A">>)),
     Members(JNum(28000), JStr(<<"a", "b", "c">>), JUndefined),
     Members(JUndefined, JUndefined, JStr(<<"A">>))}

\* data.choices?.[0]?.message?.content || '' of the replies: nothing, text
\* without an object, an unclosed or unopened object, an object alone or
\* inside text, the empty object, braces around text, an object followed by
\* a stray brace
LlmContents ==
    {<<>>, <<TextToken>>, <<TextToken, LBrace, TextToken>>,
     <<RBrace, TextToken, LBrace>>, <<LBrace, RBrace>>,
     <<LBrace, TextToken, RBrace>>}
    \cup {<<LBrace, m, RBrace>> : m \in MemberInputs}
    \cup {<<TextToken, LBrace, m, RBrace, TextToken>> : m \in MemberInputs}
    \cup {<<LBrace, m, RBrace, RBrace>> : m \in MemberInputs}

\* what fetch(chat/completions) comes to: a success response with a content,
\* a non-success response, or a rejection
LlmReplies ==
    {[kind |-> "ok", content |-> c] : c \in LlmContents}
    \cup {[kind |-> "error", content |-> <<>>], [kind |-> "fault", content |-> <<>>]}

\* content.match(/\{[\s\S]*\}/): from the first opening brace that has a
\* closing brace after it to the last closing brace; <<>> for null
JsonMatch(content) ==
    LET opens == {i \in 1..Len(content) :
                     /\ content[i] = LBrace
                     /\ \E j \in (i + 1)..Len(content) : content[j] = RBrace}
        closes == {j \in 1..Len(content) : content[j] = RBrace}
    IN IF opens = {} THEN <<>>
       ELSE SubSeq(content,
                   CHOOSE i \in opens : \A k \in opens : i <= k,
                   CHOOSE j \in closes : \A k \in closes : k <= j)

\* JSON.parse(text) returns instead of throwing
JsonParses(text) ==
    \/ text = <<LBrace, RBrace>>
    \/ Len(text) = 3 /\ text[1] = LBrace /\ text[2].t = "members"
                      /\ text[3] = RBrace

\* JSON.parse(text) of a text that parses
JsonParse(text) ==
    IF Len(text) = 3 THEN text[2] ELSE Members(JUndefined, JUndefined, JUndefined)

\* String(v || '') for a string, a whole number or a falsy value
StringOrEmpty(v) ==
    IF ~Truthy(v) THEN <<>>
    ELSE IF v.kind = "string" THEN v.chars
    ELSE ToString(v.mills \div 1000)

\* Number(v) || 0
NumberOrZero(v) == IF Truthy(ToNumber(v)) THEN ToNumber(v) ELSE JNum(0)

NoRaw == [present |-> FALSE, content |-> <<>>]
Raw(content) == [present |-> TRUE, content |-> content]

\* a failure result of extraireInfosFacture
ExtractionFailure(error, rawResponse) ==
    [numDossier |-> <<>>, montantHT |-> JNum(0), prestation |-> <<>>,
     success |-> FALSE, error |-> error, rawResponse |-> rawResponse]

NoExtraction == ExtractionFailure("undefined", NoRaw)

\* String(parsed.numDossier || '').toUpperCase().trim()
ExtractedNumDossier(parsed) ==
    Trim(ToUpperCase(StringOrEmpty(parsed.numDossier)))

\* JSON.parse throws into the catch of extraireInfosFacture, where content
\* is out of scope
ParseFailure(content) == ExtractionFailure("Erreur", NoRaw)

\* extraireInfosFacture from the reply on
ExtractionOf(reply) ==
    CASE reply.kind = "fault" -> ExtractionFailure("Erreur", NoRaw)
      [] reply.kind = "error" -> ExtractionFailure("Erreur extraction", NoRaw)
      [] reply.kind = "ok" ->
            LET jsonMatch == JsonMatch(reply.content)
            IN IF jsonMatch = <<>>
               THEN ExtractionFailure("Format de réponse invalide",
                                      Raw(reply.content))
               ELSE IF ~JsonParses(jsonMatch)
               THEN ParseFailure(reply.content)
               ELSE LET parsed == JsonParse(jsonMatch)
                    IN [numDossier |-> ExtractedNumDossier(parsed),
                        montantHT |-> NumberOrZero(parsed.montantHT),
                        prestation |-> Trim(StringOrEmpty(parsed.prestation)),
                        success |-> TRUE,
                        error |-> "undefined",
                        rawResponse |-> Raw(reply.content)]

(***************************************************************************)
(* route.ts, POST: "Cas 1: Transcription audio" and "Cas 2: Extraction".   *)
(* A response is its status and the members of its JSON body; a member     *)
(* that is not sent is "undefined".                                        *)
(***************************************************************************)
NoResponse ==
    [status |-> 0, success |-> "undefined", transcription |-> "undefined",
     extraction |-> NoExtraction, client |-> NullClient,
     error |-> "undefined"]

\* NextResponse.json({ error }, { status })
ErrorResponse(status, error) ==
    [NoResponse EXCEPT !.status = status, !.error = error]

\* NextResponse.json({ success: true, transcription })
TranscriptionResponse(transcription) ==
    [NoResponse EXCEPT !.status = 200, !.success = "true",
                       !.transcription = transcription]

\* the response of the extract action for an extraction
ExtractionResponse(extraction) ==
    IF extraction.success /\ extraction.numDossier # <<>>
    THEN [NoResponse EXCEPT !.status = 200, !.success = "true",
                            !.extraction = extraction,
                            !.client = FindClient(extraction.numDossier)]
    ELSE [NoResponse EXCEPT !.status = 200,
                            !.success = IF extraction.success THEN "true"
                                        ELSE "false",
                            !.extraction = extraction,
                            !.error = extraction.error]

InitCall ==
    [pc |-> "idle", audio |-> FALSE, transcription |-> "", sttCalls |-> 0,
     llmCalls |-> 0, reply |-> [kind |-> "none", content |-> <<>>],
     response |-> NoResponse]

\* the handler returns
ApiRespond(k, response) ==
    api' = [api EXCEPT ![k] = [api[k] EXCEPT !.pc = "done",
                                              !.response = response]]

\* whisperData.text of the replies of the speech-to-text provider
WhisperTexts == {"facture", "undefined"}

\* what fetch(audio/transcriptions) comes to
WhisperReplies ==
    {[kind |-> "ok", text |-> t] : t \in WhisperTexts}
    \cup {[kind |-> "error", text |-> "undefined"],
          [kind |-> "fault", text |-> "undefined"]}

\* whisperData.text || ''
TextOrEmpty(text) == IF text = "undefined" THEN "" ELSE text

\* the transcription request up to the first call of the provider
TranscribeStart(k) ==
    /\ api[k].pc = "t_received"
    /\ IF ~api[k].audio
       THEN ApiRespond(k, ErrorResponse(400, "Fichier audio requis"))
       ELSE IF ~apiKey
       THEN ApiRespond(k, TranscriptionResponse("[Mode démo]"))
       ELSE api' = [api EXCEPT ![k].pc = "t_fetch1"]
    /\ UNCHANGED <<clock, envVars, dbVars, factures, req, issued, overlapped,
                   calcVars, apiKey, uiVars>>

\* the first fetch of the provider returns
WhisperResponds(k, reply) ==
    /\ api[k].pc = "t_fetch1"
    /\ LET called == [api[k] EXCEPT !.sttCalls = api[k].sttCalls + 1]
       IN CASE reply.kind = "ok" ->
                  api' = [api EXCEPT ![k] =
                      [called EXCEPT
                          !.pc = "done",
                          !.response =
                              TranscriptionResponse(TextOrEmpty(reply.text))]]
            [] reply.kind = "error" ->
                  api' = [api EXCEPT ![k] = [called EXCEPT !.pc = "t_fetch2"]]
            [] reply.kind = "fault" ->
                  api' = [api EXCEPT ![k] =
                      [called EXCEPT
                          !.pc = "done",
                          !.response = ErrorResponse(500, "Erreur serveur")]]
    /\ UNCHANGED <<clock, envVars, dbVars, factures, req, issued, overlapped,
                   calcVars, apiKey, uiVars>>

\* the second fetch of the provider, made after a non-success response,
\* returns
WhisperFallbackResponds(k, reply) ==
    /\ api[k].pc = "t_fetch2"
    /\ LET called == [api[k] EXCEPT !.sttCalls = api[k].sttCalls + 1]
       IN CASE reply.kind = "ok" ->
                  api' = [api EXCEPT ![k] =
                      [called EXCEPT
                          !.pc = "done",
                          !.response =
                              TranscriptionResponse(TextOrEmpty(reply.text))]]
            [] reply.kind = "error" ->
                  api' = [api EXCEPT ![k] =
                      [called EXCEPT
                          !.pc = "done",
                          !.response =
                              [ErrorResponse(500, "Erreur Whisper")
                                  EXCEPT !.success = "false"]]]
            [] reply.kind = "fault" ->
                  api' = [api EXCEPT ![k] =
                      [called EXCEPT
                          !.pc = "done",
                          !.response = ErrorResponse(500, "Erreur serveur")]]
    /\ UNCHANGED <<clock, envVars, dbVars, factures, req, issued, overlapped,
                   calcVars, apiKey, uiVars>>

\* the extract action up to the call of the language model
ExtractStart(k) ==
    /\ api[k].pc = "e_received"
    /\ IF api[k].transcription = ""
       THEN ApiRespond(k, ErrorResponse(400, "Transcription requise"))
       ELSE IF ~apiKey
       THEN ApiRespond(k, ExtractionResponse(
                ExtractionFailure("Clé API OpenRouter non configurée", NoRaw)))
       ELSE api' = [api EXCEPT ![k].pc = "e_fetch"]
    /\ UNCHANGED <<clock, envVars, dbVars, factures, req, issued, overlapped,
                   calcVars, apiKey, uiVars>>

\* the fetch of the language model returns; extraireInfosFacture returns
\* and the extract action looks the client up and answers
LlmResponds(k, reply) ==
    /\ api[k].pc = "e_fetch"
    /\ api' = [api EXCEPT ![k] =
          [api[k] EXCEPT
              !.llmCalls = api[k].llmCalls + 1,
              !.reply = reply,
              !.pc = "done",
              !.response = ExtractionResponse(ExtractionOf(reply))]]
    /\ UNCHANGED <<clock, envVars, dbVars, factures, req, issued, overlapped,
                   calcVars, apiKey, uiVars>>

\* transcriptions an extraction request carries
Transcriptions == {"", "facture", "[Mode démo]"}

\* a transcription request arrives, with or without the audio field; the
\* requests share no state and are taken one after the other
TranscribeRequest(k) ==
    /\ api[k].pc = "idle"
    /\ \A q \in ApiCalls : q < k => api[q].pc = "done"
    /\ \E audio \in BOOLEAN :
          api' = [api EXCEPT ![k] =
              [InitCall EXCEPT !.pc = "t_received", !.audio = audio]]
    /\ UNCHANGED <<clock, envVars, dbVars, factures, req, issued, overlapped,
                   calcVars, apiKey, uiVars>>

\* an extraction request arrives
ExtractRequest(k) ==
    /\ api[k].pc = "idle"
    /\ \A q \in ApiCalls : q < k => api[q].pc = "done"
    /\ \E transcription \in Transcriptions :
          api' = [api EXCEPT ![k] =
              [InitCall EXCEPT !.pc = "e_received",
                               !.transcription = transcription]]
    /\ UNCHANGED <<clock, envVars, dbVars, factures, req, issued, overlapped,
                   calcVars, apiKey, uiVars>>

(***************************************************************************)
(* The client workflow: the Dashboard component (route.ts, 257-540) and    *)
(* the FactureForm component it renders (part_000).  A handler runs up to  *)
(* its next await in one step; the component tree is rendered again after  *)
(* every step that sets state.                                             *)
(***************************************************************************)
NoData ==
    [present |-> FALSE, id |-> 0, numDossier |-> <<>>, montantHT |-> 0,
     prestation |-> <<>>]

\* the ExtractionData the extract response carries; id tells one response
\* object from another
DataOf(extraction, id) ==
    [present |-> TRUE, id |-> id, numDossier |-> extraction.numDossier,
     montantHT |-> extraction.montantHT.mills,
     prestation |-> extraction.prestation]

NoFormData == [numDossier |-> <<>>, montantHT |-> 0, prestation |-> <<>>]

NoFacture == [present |-> FALSE, id |-> 0]

\* useState of Dashboard; submitted is the data of the last onSubmit call
InitDash ==
    [step |-> "idle", selectedClient |-> NullClient, transcription |-> "",
     extractedData |-> NoData, createdFacture |-> NoFacture,
     error |-> "null", inflight |-> {}, submitted |-> NoFormData,
     recordings |-> 0, submits |-> 0]

\* FactureForm is not mounted
NoForm ==
    [mounted |-> FALSE, formData |-> NoFormData, clientValide |-> NullClient]

\* the form is rendered in every step
FormRenderedAlways(step, selectedClient) == TRUE

\* step === 'editing' || (step === 'idle' && selectedClient)
FormRendered(step, selectedClient) ==
    \/ step = "editing"
    \/ step = "idle" /\ selectedClient # NullClient

\* a || b on strings, on numbers
OrChars(a, b) == IF a # <<>> THEN a ELSE b
OrMills(a, b) == IF a # 0 THEN a ELSE b

\* useState(initialData ...) and the two effects on the first render
MountForm(d) ==
    LET initial == [numDossier |-> d.extractedData.numDossier,
                    montantHT |-> d.extractedData.montantHT,
                    prestation |-> d.extractedData.prestation]
    IN [mounted |-> TRUE,
        formData |->
            IF d.selectedClient # NullClient
            THEN [initial EXCEPT !.numDossier = d.selectedClient.numDossier]
            ELSE initial,
        clientValide |-> d.selectedClient]

\* the effects of a later render: on a new initialData, on a new
\* selectedClient
UpdateForm(d0, d1, f) ==
    LET merged ==
            IF d1.extractedData.present /\ d1.extractedData # d0.extractedData
            THEN [numDossier |-> OrChars(d1.extractedData.numDossier,
                                         f.formData.numDossier),
                  montantHT |-> OrMills(d1.extractedData.montantHT,
                                        f.formData.montantHT),
                  prestation |-> OrChars(d1.extractedData.prestation,
                                         f.formData.prestation)]
            ELSE f.formData
    IN IF d1.selectedClient # NullClient /\ d1.selectedClient # d0.selectedClient
       THEN [f EXCEPT !.formData = [merged EXCEPT !.numDossier =
                                        d1.selectedClient.numDossier],
                      !.clientValide = d1.selectedClient]
       ELSE [f EXCEPT !.formData = merged]

\* FactureForm after the render that follows the change of Dashboard's state
\* from d0 to d1: unmounted with its state lost, mounted anew, or kept
FormAfter(d0, d1, f) ==
    IF ~FormRendered(d1.step, d1.selectedClient) THEN NoForm
    ELSE IF ~f.mounted THEN MountForm(d1)
    ELSE UpdateForm(d0, d1, f)

\* Dashboard's state becomes d; the tree is rendered again
SetDash(d) ==
    /\ dash' = d
    /\ form' = FormAfter(dash, d, form)

\* MicButton: a recording can be completed unless the button is processing
\* or disabled
MicButtonAccepts(isProcessing, disabled) == ~isProcessing /\ ~disabled

\* the least free slot of the transcription and extraction requests
FreeCall(k) ==
    /\ api[k].pc = "idle"
    /\ \A q \in 1..(k - 1) : api[q].pc # "idle"

\* err instanceof Error ? err.message : ..., of new Error(error || fallback)
ErrorMessage(error, fallback) ==
    IF error \in {"undefined", ""} THEN fallback ELSE error

\* a catch that sets the error and leaves the step as it is
RecordingCatchKeepsStep(d, message, rest) ==
    [d EXCEPT !.error = message, !.inflight = rest]

\* the catch of handleRecordingComplete: setError(...); setStep('idle')
RecordingCatch(d, message, rest) ==
    [d EXCEPT !.error = message, !.step = "idle", !.inflight = rest]

\* handleRecordingComplete up to the fetch of the transcription
HandleRecordingComplete(k) ==
    /\ MicButtonAccepts(dash.step \in {"transcribing", "extracting"},
                        dash.step = "creating")
    /\ dash.recordings < MaxRecordings
    /\ FreeCall(k)
    /\ api' = [api EXCEPT ![k] =
          [InitCall EXCEPT !.pc = "t_received", !.audio = TRUE]]
    /\ SetDash([dash EXCEPT !.step = "transcribing", !.error = "null",
                            !.inflight = dash.inflight \cup {<<"transcribe", k>>},
                            !.recordings = dash.recordings + 1])
    /\ UNCHANGED <<clock, envVars, dbVars, factures, req, issued, overlapped,
                   calcVars, apiKey>>

\* the transcription fetch settles: handleRecordingComplete goes on to the
\* fetch of the extraction, or to its catch
TranscribeSettles(k, fault) ==
    /\ <<"transcribe", k>> \in dash.inflight
    /\ api[k].pc = "done"
    /\ LET transcribeData == api[k].response
           rest == dash.inflight \ {<<"transcribe", k>>}
       IN IF fault \/ transcribeData.success # "true"
          THEN /\ api' = [api EXCEPT ![k] = InitCall]
               /\ SetDash(RecordingCatch(dash,
                      IF fault THEN "Failed to fetch"
                      ELSE ErrorMessage(transcribeData.error,
                                        "Erreur de transcription"),
                      rest))
          ELSE /\ api' = [api EXCEPT ![k] =
                     [InitCall EXCEPT
                         !.pc = "e_received",
                         !.transcription = transcribeData.transcription]]
               /\ SetDash([dash EXCEPT
                      !.transcription = transcribeData.transcription,
                      !.step = "extracting",
                      !.inflight = rest \cup {<<"extract", k>>}])
    /\ UNCHANGED <<clock, envVars, dbVars, factures, req, issued, overlapped,
                   calcVars, apiKey>>

\* the extraction fetch settles: handleRecordingComplete ends in 'editing',
\* or in its catch
ExtractSettles(k, fault) ==
    /\ <<"extract", k>> \in dash.inflight
    /\ api[k].pc = "done"
    /\ LET extractData == api[k].response
           rest == dash.inflight \ {<<"extract", k>>}
       IN IF fault \/ extractData.success # "true"
          THEN SetDash(RecordingCatch(dash,
                   IF fault THEN "Failed to fetch"
                   ELSE ErrorMessage(extractData.error, "Erreur d'extraction"),
                   rest))
          ELSE SetDash([dash EXCEPT
                   !.extractedData =
                       DataOf(extractData.extraction, dash.recordings),
                   !.selectedClient =
                       IF extractData.client # NullClient
                       THEN extractData.client ELSE dash.selectedClient,
                   !.step = "editing",
                   !.inflight = rest])
    /\ api' = [api EXCEPT ![k] = InitCall]
    /\ UNCHANGED <<clock, envVars, dbVars, factures, req, issued, overlapped,
                   calcVars, apiKey>>

\* DossierSearch: onSelectClient = setSelectedClient
SelectClient(c) ==
    /\ dash.selectedClient # c
    /\ SetDash([dash EXCEPT !.selectedClient = c])
    /\ UNCHANGED <<clock, envVars, dbVars, factures, req, issued, overlapped,
                   calcVars, apiVars>>

\* values typed in the form
NumDossierTyped == {<<"a", "m", "1">>}
MontantTyped == {150000}
PrestationTyped == {<<"B">>}

\* onChange of the three inputs
TypeNumDossier(v) ==
    /\ form.mounted
    /\ form.formData.numDossier # ToUpperCase(v)
    /\ form' = [form EXCEPT !.formData.numDossier = ToUpperCase(v)]
    /\ UNCHANGED <<clock, envVars, dbVars, factures, req, issued, overlapped,
                   calcVars, apiVars, dash>>

TypeMontant(m) ==
    /\ form.mounted
    /\ form.formData.montantHT # m
    /\ form' = [form EXCEPT !.formData.montantHT = m]
    /\ UNCHANGED <<clock, envVars, dbVars, factures, req, issued, overlapped,
                   calcVars, apiVars, dash>>

TypePrestation(p) ==
    /\ form.mounted
    /\ form.formData.prestation # p
    /\ form' = [form EXCEPT !.formData.prestation = p]
    /\ UNCHANGED <<clock, envVars, dbVars, factures, req, issued, overlapped,
                   calcVars, apiVars, dash>>

\* the client lookup endpoint /api/dossiers
DossiersLookup(numDossier) == FindClient(Trim(ToUpperCase(numDossier)))

\* verifierDossier, run by the debounce timer: the lookup answers, or fails
VerifierDossier(fault) ==
    /\ form.mounted
    /\ LET client == IF fault \/ Len(form.formData.numDossier) < 2
                     THEN NullClient
                     ELSE DossiersLookup(form.formData.numDossier)
       IN /\ form.clientValide # client
          /\ form' = [form EXCEPT !.clientValide = client]
    /\ UNCHANGED <<clock, envVars, dbVars, factures, req, issued, overlapped,
                   calcVars, apiVars, dash>>

\* the validation of handleSubmit finds no error
FormValid(f) ==
    /\ f.formData.numDossier # <<>>
    /\ f.clientValide # NullClient
    /\ f.formData.montantHT > 0
    /\ Trim(f.formData.prestation) # <<>>

\* JSON.stringify({ action: 'create', ..., genererStripe: true })
CreateBody(data) ==
    [numDossier |-> JStr(data.numDossier), montantHT |-> JNum(data.montantHT),
     prestation |-> JStr(data.prestation), genererStripe |-> JTrue]

\* handleSubmit with a valid form, and handleCreateFacture up to its fetch;
\* the request takes the next slot of the create requests
HandleSubmit(r) ==
    /\ form.mounted
    /\ FormValid(form)
    /\ r = dash.submits + 1
    /\ r <= load.requests
    /\ req[r].pc = "idle"
    /\ req' = [req EXCEPT ![r] =
          [InitReq EXCEPT !.pc = "received",
                          !.body = CreateBody(form.formData)]]
    /\ SetDash([dash EXCEPT !.step = "creating", !.error = "null",
                            !.inflight = dash.inflight \cup {<<"create", r>>},
                            !.submitted = form.formData,
                            !.submits = dash.submits + 1])
    /\ UNCHANGED <<clock, envVars, dbVars, factures, issued, overlapped,
                   calcVars, apiVars>>

\* the create fetch settles: handleCreateFacture ends in 'success', or in
\* its catch
CreateSettles(r, fault) ==
    /\ <<"create", r>> \in dash.inflight
    /\ req[r].pc = "done"
    /\ LET rest == dash.inflight \ {<<"create", r>>}
       IN IF fault \/ req[r].status # 200
          THEN SetDash([dash EXCEPT !.error = "Erreur de création",
                                    !.step = "editing",
                                    !.inflight = rest])
          ELSE SetDash([dash EXCEPT
                   !.createdFacture = [present |-> TRUE, id |-> r],
                   !.step = "success",
                   !.inflight = rest])
    /\ UNCHANGED <<clock, envVars, dbVars, factures, req, issued, overlapped,
                   calcVars, apiVars>>

\* handleCancel, from the form's cancel button
HandleCancel ==
    /\ form.mounted
    /\ SetDash([dash EXCEPT !.step = "idle", !.transcription = "",
                            !.extractedData = NoData, !.error = "null"])
    /\ UNCHANGED <<clock, envVars, dbVars, factures, req, issued, overlapped,
                   calcVars, apiVars>>

\* handleNewFacture, from the button of the success panel
HandleNewFacture ==
    /\ dash.step = "success"
    /\ dash.createdFacture.present
    /\ SetDash([dash EXCEPT !.step = "idle", !.transcription = "",
                            !.extractedData = NoData,
                            !.createdFacture = NoFacture,
                            !.selectedClient = NullClient,
                            !.error = "null"])
    /\ UNCHANGED <<clock, envVars, dbVars, factures, req, issued, overlapped,
                   calcVars, apiVars>>

\* new year's eve passes
Tick ==
    /\ clock + 1 \in Years
    /\ clock' = clock + 1
    /\ UNCHANGED <<envVars, dbVars, factures, req, issued, overlapped, calcVars, apiVars, uiVars>>

NoCalcArgs == [montantHT |-> 0, tauxTVA |-> 20]


\* the row a run starts with: none, or the counter of the year before
InitialRows == {NoRow, Row(7, 2024)}

\* rows of the running year, from which the numbers 42, 10000 and 12345 are
\* the next ones
FormatRows == {Row(41, 2025), Row(9999, 2025), Row(12344, 2025)}

Init ==
    /\ clock = 2025
    /\ load \in [requests : {MaxRequests}, bodies : {"valid"}, row : InitialRows]
    /\ isolation \in IsolationLevels
    /\ stripeKey = TRUE
    /\ seq = load.row
    /\ seqVersion = 0
    /\ lockHolder = 0
    /\ factures = {}
    /\ req = [r \in Requests |-> InitReq]
    /\ issued = <<>>
    /\ overlapped = FALSE
    /\ calcArgs = NoCalcArgs
    /\ calcResult = NoMontants
    /\ apiKey = FALSE
    /\ api = [k \in ApiCalls |-> InitCall]
    /\ dash = InitDash
    /\ form = NoForm

Next ==
    \/ \E r \in Requests : RequestJson(r)
    \/ \E r \in Requests : CreateAction(r)
    \/ \E r \in Requests : TxFindUnique(r)
    \/ \E r \in Requests : TxCreate(r)
    \/ \E r \in Requests : TxResetYear(r)
    \/ \E r \in Requests : TxIncrement(r)
    \/ \E r \in Requests : TxCommit(r)
    \/ \E r \in Requests : TxAbort(r)
    \/ \E r \in Requests, result \in StripeResults : StripeReturn(r, result)
    \/ \E r \in Requests : FactureCreate(r)
    \/ \E r \in Requests : FactureCreateFails(r)
    \/ Tick

\* MaxRequests complete create requests, which may all overlap
Spec == Init /\ [][Next]_vars

(***************************************************************************)
(* calculerMontants on its own: every amount and rate of a bounded set.    *)
(***************************************************************************)
CalcRates == {0, 5, 10, 20}

InitCalc ==
    /\ clock = 2025
    /\ load = [requests |-> 0, bodies |-> "valid", row |-> NoRow]
    /\ isolation = "Serializable"
    /\ stripeKey = FALSE
    /\ seq = NoRow
    /\ seqVersion = 0
    /\ lockHolder = 0
    /\ factures = {}
    /\ req = [r \in Requests |-> InitReq]
    /\ issued = <<>>
    /\ overlapped = FALSE
    /\ calcArgs \in [montantHT : CalcAmounts, tauxTVA : CalcRates]
    /\ calcResult = NoMontants
    /\ apiKey = FALSE
    /\ api = [k \in ApiCalls |-> InitCall]
    /\ dash = InitDash
    /\ form = NoForm

Calc ==
    /\ calcResult = NoMontants
    /\ calcResult' \in calculerMontants(JNum(calcArgs.montantHT), calcArgs.tauxTVA)
    /\ UNCHANGED <<clock, envVars, dbVars, factures, req, issued, overlapped,
                   calcArgs, apiVars, uiVars>>

NextCalc == Calc

SpecCalc == InitCalc /\ [][NextCalc]_vars

(***************************************************************************)
(* A single create request over every body of AllBodies, on a fresh store *)
(* or on one that holds last year's counter, with and without the payment  *)
(* provider's key.                                                         *)
(***************************************************************************)
InitInputs ==
    /\ clock = 2025
    /\ load \in [requests : {1}, bodies : {"all"},
                 row : InitialRows \cup FormatRows]
    /\ isolation \in IsolationLevels
    /\ stripeKey \in BOOLEAN
    /\ seq = load.row
    /\ seqVersion = 0
    /\ lockHolder = 0
    /\ factures = {}
    /\ req = [r \in Requests |-> InitReq]
    /\ issued = <<>>
    /\ overlapped = FALSE
    /\ calcArgs = NoCalcArgs
    /\ calcResult = NoMontants
    /\ apiKey = FALSE
    /\ api = [k \in ApiCalls |-> InitCall]
    /\ dash = InitDash
    /\ form = NoForm

SpecInputs == InitInputs /\ [][Next]_vars


(***************************************************************************)
(* The transcription and extraction requests on their own, with and        *)
(* without the provider's key.                                             *)
(***************************************************************************)
InitApi ==
    /\ clock = 2025
    /\ load = [requests |-> 0, bodies |-> "valid", row |-> NoRow]
    /\ isolation = "Serializable"
    /\ stripeKey = FALSE
    /\ seq = NoRow
    /\ seqVersion = 0
    /\ lockHolder = 0
    /\ factures = {}
    /\ req = [r \in Requests |-> InitReq]
    /\ issued = <<>>
    /\ overlapped = FALSE
    /\ calcArgs = NoCalcArgs
    /\ calcResult = NoMontants
    /\ apiKey \in BOOLEAN
    /\ api = [k \in ApiCalls |-> InitCall]
    /\ dash = InitDash
    /\ form = NoForm

NextApi ==
    \/ \E k \in ApiCalls : TranscribeRequest(k)
    \/ \E k \in ApiCalls : ExtractRequest(k)
    \/ \E k \in ApiCalls : TranscribeStart(k)
    \/ \E k \in ApiCalls, reply \in WhisperReplies : WhisperResponds(k, reply)
    \/ \E k \in ApiCalls, reply \in WhisperReplies :
          WhisperFallbackResponds(k, reply)
    \/ \E k \in ApiCalls : ExtractStart(k)
    \/ \E k \in ApiCalls, reply \in LlmReplies : LlmResponds(k, reply)

SpecApi == InitApi /\ [][NextApi]_vars

(***************************************************************************)
(* The client workflow in front of the three actions of POST.              *)
(***************************************************************************)
InitUI ==
    /\ clock = 2025
    /\ load \in [requests : {1}, bodies : {"valid"}, row : InitialRows]
    /\ isolation = "ReadCommitted"
    /\ stripeKey = TRUE
    /\ seq = load.row
    /\ seqVersion = 0
    /\ lockHolder = 0
    /\ factures = {}
    /\ req = [r \in Requests |-> InitReq]
    /\ issued = <<>>
    /\ overlapped = FALSE
    /\ calcArgs = NoCalcArgs
    /\ calcResult = NoMontants
    /\ apiKey \in BOOLEAN
    /\ api = [k \in ApiCalls |-> InitCall]
    /\ dash = InitDash
    /\ form = NoForm

NextUI ==
    \/ \E k \in ApiCalls : HandleRecordingComplete(k)
    \/ \E k \in ApiCalls, fault \in BOOLEAN : TranscribeSettles(k, fault)
    \/ \E k \in ApiCalls, fault \in BOOLEAN : ExtractSettles(k, fault)
    \/ \E c \in Clients : SelectClient(c)
    \/ \E v \in NumDossierTyped : TypeNumDossier(v)
    \/ \E m \in MontantTyped : TypeMontant(m)
    \/ \E p \in PrestationTyped : TypePrestation(p)
    \/ \E fault \in BOOLEAN : VerifierDossier(fault)
    \/ \E r \in Requests : HandleSubmit(r)
    \/ \E r \in Requests, fault \in BOOLEAN : CreateSettles(r, fault)
    \/ HandleCancel
    \/ HandleNewFacture
    \/ \E k \in ApiCalls : TranscribeStart(k)
    \/ \E k \in ApiCalls, reply \in WhisperReplies : WhisperResponds(k, reply)
    \/ \E k \in ApiCalls, reply \in WhisperReplies :
          WhisperFallbackResponds(k, reply)
    \/ \E k \in ApiCalls : ExtractStart(k)
    \/ \E k \in ApiCalls, reply \in LlmReplies : LlmResponds(k, reply)
    \/ \E r \in Requests : CreateAction(r)
    \/ \E r \in Requests : TxFindUnique(r)
    \/ \E r \in Requests : TxCreate(r)
    \/ \E r \in Requests : TxResetYear(r)
    \/ \E r \in Requests : TxIncrement(r)
    \/ \E r \in Requests : TxCommit(r)
    \/ \E r \in Requests : TxAbort(r)
    \/ \E r \in Requests, result \in StripeResults : StripeReturn(r, result)
    \/ \E r \in Requests : FactureCreate(r)
    \/ \E r \in Requests : FactureCreateFails(r)

SpecUI == InitUI /\ [][NextUI]_vars

\* a request the workflow issued goes on in the route handler: the handler
\* runs, a provider answers or rejects, the store answers
RequestProceeds ==
    \/ \E k \in ApiCalls : TranscribeStart(k)
    \/ \E k \in ApiCalls, reply \in WhisperReplies : WhisperResponds(k, reply)
    \/ \E k \in ApiCalls, reply \in WhisperReplies :
          WhisperFallbackResponds(k, reply)
    \/ \E k \in ApiCalls : ExtractStart(k)
    \/ \E k \in ApiCalls, reply \in LlmReplies : LlmResponds(k, reply)
    \/ \E r \in Requests : CreateAction(r)
    \/ \E r \in Requests : TxFindUnique(r)
    \/ \E r \in Requests : TxCreate(r)
    \/ \E r \in Requests : TxResetYear(r)
    \/ \E r \in Requests : TxIncrement(r)
    \/ \E r \in Requests : TxCommit(r)
    \/ \E r \in Requests : TxAbort(r)
    \/ \E r \in Requests, result \in StripeResults : StripeReturn(r, result)
    \/ \E r \in Requests : FactureCreate(r)
    \/ \E r \in Requests : FactureCreateFails(r)

\* the handler awaiting a fetch goes on once the fetch has settled
FetchSettles ==
    \/ \E k \in ApiCalls, fault \in BOOLEAN : TranscribeSettles(k, fault)
    \/ \E k \in ApiCalls, fault \in BOOLEAN : ExtractSettles(k, fault)
    \/ \E r \in Requests, fault \in BOOLEAN : CreateSettles(r, fault)

\* the client workflow where every request that was issued completes and
\* every settled promise has its continuation run
SpecUILive ==
    /\ InitUI
    /\ [][NextUI]_vars
    /\ WF_vars(RequestProceeds)
    /\ WF_vars(FetchSettles)


(***************************************************************************)
(* The claims.                                                             *)
(***************************************************************************)
Abs(x) == IF x < 0 THEN -x ELSE x

\* C1: any two getNextFactureNumber calls of the same year that completed
\* returned different numeroSequentiel values.
C1_NoDuplicateNumber ==
    \A i, j \in 1..Len(issued) :
        (i # j /\ issued[i].annee = issued[j].annee)
            => issued[i].numero # issued[j].numero

\* C2: when no two getNextFactureNumber calls overlapped and all the
\* completed ones ran in one year, starting from an absent row (or from the
\* counter of an earlier year), the k-th completed call returned k.
C2_SequentialNumbers ==
    (/\ ~overlapped
     /\ \A i \in 1..Len(issued) : issued[i].annee = issued[1].annee)
        => \A k \in 1..Len(issued) : issued[k].numero = k

C2_Witness ==
    /\ load.row = NoRow
    /\ ~overlapped
    /\ Len(issued) >= 2
    /\ \A i \in 1..Len(issued) : issued[i].annee = issued[1].annee

\* C3: a getNextFactureNumber call that finds the row with another year than
\* the one it read from the clock returns 1 under the prefix of its year and
\* commits the row { dernierNumero: 1, annee: its year }.
C3_YearReset ==
    [][\A r \in Requests :
          (/\ req[r].pc = "tx_commit"
           /\ req[r].didReset
           /\ req'[r].pc \in {"stripe", "persist"})
              => /\ req'[r].numeroSequentiel = 1
                 /\ req'[r].prefixe = Prefixe(req[r].anneeEnCours)
                 /\ seq' = Row(1, req[r].anneeEnCours)]_vars

C3_Witness ==
    \E r \in Requests :
        /\ req[r].pc \in {"stripe", "persist"}
        /\ req[r].didReset
        /\ req[r].sequence.dernierNumero = 0
        /\ load.row = Row(7, 2024)
        /\ seq = Row(1, req[r].anneeEnCours)

\* C4: a step of a transaction other than its commit leaves the committed row
\* as it is; a transaction that aborts answers 500 without a number, leaves
\* the row, the invoices and the issued numbers as they are, and its request
\* persists no invoice.
C4_AbortLeavesNoTrace ==
    /\ [](\A r \in Requests :
            req[r].txAborted =>
                /\ req[r].pc = "done"
                /\ req[r].status = 500
                /\ req[r].numeroSequentiel = 0
                /\ \A f \in factures : f.id # r)
    /\ [][\A r \in Requests :
            (/\ req[r].pc \in TxPcs
             /\ req'[r] # req[r]
             /\ req'[r].pc \in TxPcs \cup {"done"})
                => /\ seq' = seq
                   /\ factures' = factures
                   /\ issued' = issued]_vars

C4_Witness ==
    \E r \in Requests :
        /\ req[r].txAborted
        /\ req[r].wrote
        /\ ~seq.present

\* a body field that is absent, an empty string, zero or NaN
Falsy(v) ==
    \/ v.kind \in {"undefined", "NaN"}
    \/ v.kind = "string" /\ v.chars = <<>>
    \/ v.kind = "number" /\ v.mills = 0

SomeFieldFalsy(body) ==
    Falsy(body.numDossier) \/ Falsy(body.montantHT) \/ Falsy(body.prestation)

\* no client is stored under the upper-cased, trimmed numDossier
UnknownClient(body) ==
    /\ body.numDossier.kind = "string"
    /\ \A c \in Clients : c.numDossier # Trim(ToUpperCase(body.numDossier.chars))

NothingDone(r) ==
    /\ ~req[r].calledGetNext
    /\ ~req[r].calledStripe
    /\ \A f \in factures : f.id # r

\* C5: a create request whose normalized numDossier matches no client is
\* answered 404 (400 when a required field is missing as well) in the step
\* that examines it, which leaves the counter row and the invoices as they
\* are; a request answered 404 called neither getNextFactureNumber nor the
\* payment-link provider and persisted nothing; every persisted invoice
\* references a stored client.
C5_UnknownClient ==
    /\ [](/\ \A r \in Requests : req[r].status = 404 => NothingDone(r)
          /\ \A f \in factures : \E c \in Clients : c.id = f.clientId)
    /\ [][\A r \in Requests :
            (/\ req[r].pc = "received"
             /\ UnknownClient(req[r].body)
             /\ req'[r] # req[r])
                => /\ req'[r].pc = "done"
                   /\ req'[r].status =
                         IF SomeFieldFalsy(req[r].body) THEN 400 ELSE 404
                   /\ UNCHANGED <<seq, factures, issued>>]_vars

C5_Witness ==
    \E r \in Requests : req[r].status = 404 /\ seq.present

\* C6: a create request in which numDossier, montantHT or prestation is absent
\* or falsy is answered 400 in the step that examines it, which leaves the
\* counter row and the invoices as they are; a request answered 400 called
\* neither getNextFactureNumber nor the payment-link provider and persisted
\* nothing.
C6_IncompleteRejected ==
    /\ [](\A r \in Requests :
            /\ req[r].status = 400 => NothingDone(r)
            /\ req[r].pc \notin {"idle", "received", "done"}
                  => ~SomeFieldFalsy(req[r].body))
    /\ [][\A r \in Requests :
            (/\ req[r].pc = "received"
             /\ SomeFieldFalsy(req[r].body)
             /\ req'[r] # req[r])
                => /\ req'[r].pc = "done"
                   /\ req'[r].status = 400
                   /\ UNCHANGED <<seq, factures, issued>>]_vars

C6_Witness ==
    \E r \in Requests : req[r].status = 400 /\ seq.present

\* a number that is not zero
ValidAmount(n) == n.kind = "number" /\ n.mills # 0

\* C7: a request inside getNextFactureNumber has a known client and a
\* montantHT that is a valid amount.
C7_AllocationAfterValidAmount ==
    \A r \in Requests :
        req[r].pc \in TxPcs
            => /\ req[r].client \in Clients
               /\ ValidAmount(ToNumber(req[r].body.montantHT))

\* C8: once the payment-link call of a request has failed, the request goes
\* on to persist the invoice with stripePaymentLink = null and
\* stripePaymentId = null; the persistence is then possible whenever the
\* amounts are numbers, and unless the persistence itself fails the request
\* is answered 200 with exactly one invoice persisted, which carries the two
\* nulls.
C8_StripeFailureNonFatal ==
    \A r \in Requests :
        req[r].stripeFailed =>
            /\ req[r].calledStripe
            /\ req[r].pc \in {"persist", "done"}
            /\ req[r].pc = "persist" =>
                  /\ req[r].stripePaymentLink = "null"
                  /\ req[r].stripePaymentId = "null"
                  /\ Storable(FactureData(r)) => ENABLED FactureCreate(r)
            /\ req[r].pc = "done" =>
                  \/ /\ req[r].persistThrew
                     /\ req[r].status = 500
                     /\ \A f \in factures : f.id # r
                  \/ /\ ~req[r].persistThrew
                     /\ req[r].status = 200
                     /\ Cardinality({f \in factures : f.id = r}) = 1
                     /\ \A f \in factures :
                           f.id = r => /\ f.stripePaymentLink = "null"
                                       /\ f.stripePaymentId = "null"

C8_Witness ==
    \E r \in Requests :
        /\ req[r].stripeFailed
        /\ req[r].status = 200
        /\ \E f \in factures : f.id = r /\ f.stripePaymentLink = "null"

\* c is num / den rounded to the nearest integer, a half going up
IsRoundHalfUp(c, num, den) ==
    /\ 2 * den * c - den <= 2 * num
    /\ 2 * num < 2 * den * c + den

\* C9: calculerMontants returns montantHT = the amount rounded half-up to the
\* cent, montantTVA = amount * rate / 100 rounded half-up to the cent, and
\* montantTTC = montantHT + montantTVA as returned; (100, 20) gives 20 and
\* 120, (33.33, 20) gives 6.67 and 40.00.
C9_CalculerMontants ==
    calcResult # NoMontants =>
        LET h == calcArgs.montantHT
            t == calcArgs.tauxTVA
            ht == calcResult.montantHT.mills
            tva == calcResult.montantTVA.mills
            ttc == calcResult.montantTTC.mills
        IN /\ calcResult.tauxTVA = t
           /\ ht % 10 = 0 /\ IsRoundHalfUp(ht \div 10, h, 10)
           /\ tva % 10 = 0 /\ IsRoundHalfUp(tva \div 10, h * t, 1000)
           /\ ttc = ht + tva
           /\ (h = 100000 /\ t = 20) => (tva = 20000 /\ ttc = 120000)
           /\ (h = 33330 /\ t = 20) => (tva = 6670 /\ ttc = 40000)

\* C10: the stored fields of every persisted invoice satisfy
\* |montantTTC - (montantHT + montantTVA)| <= one cent.
C10_TotalWithinOneCent ==
    \A f \in factures :
        Abs(f.montantTTC.mills - (f.montantHT.mills + f.montantTVA.mills)) <= 10

\* an invoice of 1.255 stored as 1.25 + 0.25 with the total 1.51
C10_Witness ==
    \E f \in factures :
        /\ f.montantHT = JNum(1250)
        /\ f.montantTVA = JNum(250)
        /\ f.montantTTC = JNum(1510)

\* d is n written in decimal, left-padded with zeros to 4 digits, not cut
PaddedDecimal(d, n) ==
    /\ \A i \in 1..Len(d) : IsDigit(d[i])
    /\ DecimalValue(d) = n
    /\ Len(d) >= 4
    /\ Len(d) > 4 => d[1] # "0"

\* "FA-" + y + "-" and the padded number after it
WellFormedNumber(prefixe, numeroComplet, n, y) ==
    /\ n >= 1
    /\ Len(prefixe) = 8
    /\ SubSeq(prefixe, 1, 3) = <<"F", "A", "-">>
    /\ \A i \in 4..7 : IsDigit(prefixe[i])
    /\ DecimalValue(SubSeq(prefixe, 4, 7)) = y
    /\ prefixe[8] = "-"
    /\ Len(numeroComplet) > 8
    /\ SubSeq(numeroComplet, 1, 8) = prefixe
    /\ PaddedDecimal(SubSeq(numeroComplet, 9, Len(numeroComplet)), n)
    /\ n = 1 => SubSeq(numeroComplet, 9, Len(numeroComplet))
                    = <<"0", "0", "0", "1">>
    /\ n = 12345 => SubSeq(numeroComplet, 9, Len(numeroComplet))
                        = <<"1", "2", "3", "4", "5">>

\* C11: what getNextFactureNumber returned to a request is the number n >= 1
\* it issued for its year y, prefixe = "FA-" + y + "-" and numeroComplet =
\* prefixe followed by n in decimal, zero-padded to at least 4 digits and
\* never cut (0001 for 1, 12345 for 12345); every persisted invoice stores
\* the three values of an issued number.
C11_NumberFormat ==
    /\ \A r \in Requests :
          req[r].pc \in {"stripe", "persist"} =>
              /\ \E i \in 1..Len(issued) :
                    issued[i] = [numero |-> req[r].numeroSequentiel,
                                 annee |-> req[r].anneeEnCours]
              /\ WellFormedNumber(req[r].prefixe, req[r].numeroComplet,
                                  req[r].numeroSequentiel, req[r].anneeEnCours)
    /\ \A f \in factures :
          \E i \in 1..Len(issued) :
              /\ issued[i].numero = f.numeroSequentiel
              /\ WellFormedNumber(f.prefixe, f.numeroComplet,
                                  f.numeroSequentiel, issued[i].annee)

C11_Witness ==
    /\ \E f \in factures :
          /\ f.numeroSequentiel = 12345
          /\ f.numeroComplet =
                <<"F", "A", "-", "2", "0", "2", "5", "-", "1", "2", "3", "4", "5">>
    /\ load.row = Row(12344, 2025)

\* the reply of the language model holds no JSON object substring, or one
\* that does not parse
NoJsonObject(content) ==
    \/ ~\E i, j \in 1..Len(content) :
          i < j /\ content[i] = LBrace /\ content[j] = RBrace
    \/ ~JsonParses(JsonMatch(content))

\* C12: when the reply of the language model holds no JSON object substring
\* or one that fails to parse, the extraction answered failed
\* (success = false) and carries the reply's text in rawResponse.
C12_FailureKeepsRawResponse ==
    \A k \in ApiCalls :
        (/\ api[k].pc = "done"
         /\ api[k].reply.kind = "ok"
         /\ NoJsonObject(api[k].reply.content))
            => /\ ~api[k].response.extraction.success
               /\ api[k].response.success = "false"
               /\ api[k].response.extraction.rawResponse
                     = Raw(api[k].reply.content)

\* C13: a request calls the speech-to-text provider at most once and the
\* language model at most once, and a create request that waits for the
\* payment-link provider has not called it before.
C13_OneCallPerProvider ==
    /\ \A k \in ApiCalls : api[k].sttCalls <= 1 /\ api[k].llmCalls <= 1
    /\ \A r \in Requests : req[r].pc = "stripe" => ~req[r].calledStripe

LowerChar(c) ==
    CASE c = "A" -> "a"
      [] c = "M" -> "m"
      [] c = "Z" -> "z"
      [] OTHER -> c

LowerCaseLetters == {LowerChar(c) : c \in {"A", "M", "Z"}}

\* given is stored with some letters in lower case and spaces around it
DiffersByCaseAndSpace(given, stored) ==
    \E lead \in 0..Len(given) :
        /\ lead + Len(stored) <= Len(given)
        /\ \A i \in 1..Len(given) :
              IF i <= lead \/ i > lead + Len(stored)
              THEN given[i] = " "
              ELSE given[i] \in {stored[i - lead], LowerChar(stored[i - lead])}

\* C14: a create request with complete fields whose numDossier is a stored
\* numDossier up to letter case and surrounding spaces is not answered 404
\* and goes on with that client (" am0028 " is looked up as "AM0028"); the
\* numDossier of every successful extraction is upper-cased and trimmed
\* already, and the extract action answers with the client stored under it.
C14_LookupNormalized ==
    /\ [][\A r \in Requests : \A c \in Clients :
            (/\ req[r].pc = "received"
             /\ ~SomeFieldFalsy(req[r].body)
             /\ req[r].body.numDossier.kind = "string"
             /\ DiffersByCaseAndSpace(req[r].body.numDossier.chars, c.numDossier)
             /\ req'[r] # req[r])
                => /\ req'[r].pc = "tx_find"
                   /\ req'[r].client = c]_vars
    /\ [](/\ NormalizedNumDossier(
                [numDossier |-> JStr(<<" ", "a", "m", "0", "0", "2", "8", " ">>)])
                = <<"A", "M", "0", "0", "2", "8">>
          /\ \A reply \in LlmReplies :
                LET extraction == ExtractionOf(reply)
                IN extraction.success =>
                      /\ \A i \in 1..Len(extraction.numDossier) :
                            extraction.numDossier[i] \notin LowerCaseLetters
                      /\ extraction.numDossier # <<>> =>
                            /\ extraction.numDossier[1] # " "
                            /\ extraction.numDossier[Len(extraction.numDossier)] # " "
                      /\ \A c \in Clients :
                            c.numDossier = extraction.numDossier =>
                                ExtractionResponse(extraction).client = c)

C14_Witness ==
    \E r \in Requests :
        /\ req[r].pc = "tx_find"
        /\ req[r].body.numDossier = JStr(<<" ", "a", "m", "1", " ">>)
        /\ req[r].client.numDossier = <<"A", "M", "1">>

\* the draft the form holds, as handleSubmit would pass it on
Draft(f) == IF f.mounted THEN f.formData ELSE NoFormData

\* the create request r settles in this step without a created invoice
CreateFailed(r) ==
    /\ <<"create", r>> \in dash.inflight
    /\ <<"create", r>> \notin dash'.inflight
    /\ ~dash'.createdFacture.present

\* C15: when the create request fails while the step is 'creating', the
\* step becomes 'editing' with an error, and the form shows the values the
\* user had submitted.
C15_FailedCreateKeepsEdits ==
    [][\A r \in Requests :
        (dash.step = "creating" /\ CreateFailed(r))
            => /\ dash'.step = "editing"
               /\ dash'.error \notin {"null", ""}
               /\ form'.mounted
               /\ form'.formData = dash.submitted]_vars

\* C16: at most one request of the workflow (transcribe, extract, create)
\* is in flight at any time.
C16_OneRequestInFlight == Cardinality(dash.inflight) <= 1

C16_Witness ==
    /\ dash.recordings = MaxRecordings
    /\ dash.inflight = {<<"create", 1>>}
    /\ req[1].pc \notin {"idle", "done"}

\* C17: the step leaves 'success' only for 'idle', by handleNewFacture,
\* which clears transcription, extractedData, createdFacture, selectedClient
\* and error; no other event changes the step in 'success'.
C17_SuccessLeavesByNewFacture ==
    [][(dash.step = "success" /\ dash'.step # "success")
            => /\ dash'.step = "idle"
               /\ dash'.transcription = ""
               /\ dash'.extractedData = NoData
               /\ dash'.createdFacture = NoFacture
               /\ dash'.selectedClient = NullClient
               /\ dash'.error = "null"]_vars

\* C18: cancelling in 'editing' leads to 'idle' with the draft discarded:
\* no extracted data or transcription is held and no form field is shown or
\* can be submitted; and while the step stays 'editing' nothing is written
\* on the server.
C18_CancelDiscardsDraft ==
    [][/\ (dash.step = "editing" /\ dash'.step = "idle")
            => /\ dash'.transcription = ""
               /\ dash'.extractedData = NoData
               /\ Draft(form') = NoFormData
       /\ (dash.step = "editing" /\ dash'.step = "editing")
            => /\ factures' = factures
               /\ seq' = seq]_vars

\* the transcription, the extraction request of slot k settles in this step
TranscribeSettled(k) ==
    <<"transcribe", k>> \in dash.inflight /\ <<"transcribe", k>> \notin dash'.inflight

ExtractSettled(k) ==
    <<"extract", k>> \in dash.inflight /\ <<"extract", k>> \notin dash'.inflight

\* C19: a completed recording sets the step to 'transcribing'; the
\* transcription leads to 'extracting' when it succeeded; the extraction
\* leads to 'editing' when it succeeded, with or without a matched client;
\* a failure of either leads to 'idle' with a non-empty error, never to
\* 'editing'.
C19_RecordingWorkflow ==
    [][/\ dash'.recordings # dash.recordings => dash'.step = "transcribing"
       /\ \A k \in ApiCalls :
            /\ TranscribeSettled(k) =>
                  IF api[k].response.success = "true"
                  THEN dash'.step \in {"extracting", "idle"}
                  ELSE dash'.step = "idle"
            /\ ExtractSettled(k) =>
                  IF api[k].response.success = "true"
                  THEN dash'.step \in {"editing", "idle"}
                  ELSE dash'.step = "idle"
            /\ (TranscribeSettled(k) \/ ExtractSettled(k)) =>
                  \/ dash'.step = "idle" /\ dash'.error \notin {"null", "", "undefined"}
                  \/ dash'.step \in {"extracting", "editing"} /\ dash'.error = "null"]_vars

C19_Witness ==
    /\ dash.step = "editing"
    /\ dash.extractedData.present
    /\ dash.selectedClient = NullClient
    /\ dash.recordings = MaxRecordings

\* C20: no two persisted invoices have the same numeroComplet, and every
\* persisted invoice of the running year has a numeroSequentiel that is at
\* most the dernierNumero of the counter row.
C20_NoNumberReused ==
    /\ \A f, g \in factures : f # g => f.numeroComplet # g.numeroComplet
    /\ \A f \in factures :
          f.prefixe = Prefixe(clock) =>
              /\ seq.present
              /\ f.numeroSequentiel <= seq.dernierNumero

\* this step enters 'creating', or hands a create request to the server
CreateSent ==
    \/ dash.step # "creating" /\ dash'.step = "creating"
    \/ \E r \in Requests : req[r].pc = "idle" /\ req'[r].pc = "received"

\* C21 as stated: 'creating' is entered, and a create request sent, only
\* from 'editing'.
C21_CreatingOnlyFromEditing ==
    [][CreateSent => dash.step = "editing"]_vars

\* C21: 'creating' is entered, and a create request sent, only by a submit
\* of the rendered form with valid fields, from 'editing' or from 'idle'
\* with a client selected, never from 'transcribing', 'extracting',
\* 'creating' or 'success'; the request carries the fields of the form, and
\* no invoice is persisted before a submit.
C21_CreatingOnlyBySubmit ==
    /\ [][CreateSent =>
            /\ \/ dash.step = "editing"
               \/ dash.step = "idle" /\ dash.selectedClient # NullClient
            /\ form.mounted
            /\ form.clientValide # NullClient
            /\ dash'.step = "creating"
            /\ dash'.submits = dash.submits + 1
            /\ \E r \in Requests :
                  /\ req[r].pc = "idle"
                  /\ req'[r].pc = "received"
                  /\ req'[r].body.numDossier = JStr(form.formData.numDossier)
                  /\ req'[r].body.montantHT = JNum(form.formData.montantHT)
                  /\ req'[r].body.prestation = JStr(form.formData.prestation)]_vars
    /\ [](factures # {} => dash.submits > 0)

C21_Witness ==
    /\ dash.step = "success"
    /\ dash.extractedData.present
    /\ dash.submits = 1
    /\ factures # {}

BusySteps == {"transcribing", "extracting", "creating"}
StableSteps == {"idle", "editing", "success"}

\* C22: when every request issued by the workflow completes, a step
\* 'transcribing', 'extracting' or 'creating' is eventually followed by one
\* of the steps 'idle', 'editing' or 'success'.
C22_BusyStepsEnd ==
    /\ (dash.step \in BusySteps) ~> (dash.step \in StableSteps)
    /\ \A busy \in BusySteps : []<>(dash.step # busy)

C22_Witness ==
    /\ dash.step = "idle"
    /\ dash.recordings = 1
    /\ dash.error = "Failed to fetch"
    /\ dash.inflight = {}

=============================================================================
